---- MODULE Spec2Model ----
(***************************************************************************)
(* livereload_server: the streaming HTML rewriter                          *)
(* (LiveReloadingStaticServer._stream_file_with_replacement) and the       *)
(* websocket client registry (reload, _on_shutdown,                        *)
(* _get_livereload_socket, _on_websocket_client_message).                  *)
(*                                                                         *)
(* The specifications of the module: SpecStream runs one HTML response     *)
(* over every file and chunk size of a bounded family; SpecStatic puts     *)
(* the resolution of _get_static_file in front of it; SpecWs runs the      *)
(* websocket handlers, the broadcast started by _get_forcereload and the   *)
(* shutdown hook interleaved at their await points; SpecHandlers runs the  *)
(* handlers and the shutdown hook with no broadcast in progress, and       *)
(* SpecShutdown adds the completion of the hook's awaited close;           *)
(* SpecMain adds amain (__main__.py) as the caller that sets the server    *)
(* up.                                                                     *)
(***************************************************************************)
EXTENDS Integers, Sequences, FiniteSets, TLC

VARIABLES
    \* ---- _stream_file_with_replacement: one response ----
    file,                   \* the bytes of destination_file
    chunk_size,             \* the size passed to fobj.read (CHUNK_SIZE in the source)
    st_pc,                  \* "start" | "loop" | "done" | "off"
    pos,                    \* the file object's read offset
    chunk,                  \* local chunk
    end_of_last_chunk,      \* local end_of_last_chunk
    search_space,           \* local search_space of the last iteration that built one
    wrote_injected_script,  \* local wrote_injected_script
    out,                    \* what writer.write has been given, in order
    fs_target,              \* what the file system holds at path_to_serve / request.path[1:]:
                            \* "file" | "dir" | "none"
    fs_index,               \* what it holds at that path / "index.html"
    fs_html,                \* mimetypes.guess_type gives text/html for the final path
    status,                 \* status of the response of _get_static_file, 0 while none
    committed,              \* response.prepare() has sent the status line and headers
    \* ---- the websocket side ----
    open_websockets,        \* self._open_websockets
    h_pc,                   \* per client: position of its _get_livereload_socket coroutine
    h_err,                  \* per client: the exception that coroutine is unwinding with
    closed,                 \* per client: ws.closed
    inbox_left,             \* messages the peers may still deliver, all clients together
    outbox,                 \* per client: messages accepted by ws.send_json, in order
    hello_seen,             \* per client: number of hello commands the handler has decoded
    last_msg,               \* <<client, message>> when the last step was a handler
                            \* taking a message, <<0, "none">> otherwise
    r_pc,                   \* reload(): "idle" | "send" | "returned" | "raised"; the
                            \* last two are the instant reload() hands back to its caller
    r_path,                 \* reload(): argument path
    r_target,               \* reload(): loop variable websocket
    r_used,                 \* reload(): the set iterator's size snapshot
    r_visited,              \* reload(): members the iterator has yielded
    r_start,                \* the registry when the running broadcast began
    r_gone,                 \* clients removed from the registry during the running broadcast
    r_count,                \* per client: reload messages accepted in the running broadcast
    r_err,                  \* the exception reload() raised, "none" if none
    reloads_left,           \* broadcasts that may still be started
    s_pc,                   \* _on_shutdown: "idle" | "close" | "done"
    s_ws,                   \* _on_shutdown: local websocket
    s_seen,                 \* clients registered when _on_shutdown was called, or that
                            \* registered while it was suspended at a close
    r_query,                \* _get_forcereload: the request's path parameter, "absent"
                            \* if it has none, "none" when no request is being handled
    response,               \* <<status, body>> of the last force-reload request answered
    a_pc,                   \* amain: "start" | "entered" | "aexit" | "raised"; "none"
                            \* when the server is set up by another caller of the class
    a_err                   \* the exception amain is unwinding with

staticVars == <<fs_target, fs_index, fs_html, status, committed>>
streamVars == <<file, chunk_size, st_pc, pos, chunk, end_of_last_chunk, search_space,
                wrote_injected_script, out, staticVars>>
handlerVars == <<h_pc, h_err, closed, inbox_left, outbox, hello_seen>>
reloadVars == <<r_pc, r_path, r_target, r_used, r_visited, r_start, r_gone,
                r_count, r_err, reloads_left>>
shutdownVars == <<s_pc, s_ws, s_seen>>
requestVars == <<r_query, response>>
mainVars == <<a_pc, a_err>>
wsVars == <<open_websockets, handlerVars, last_msg, reloadVars, shutdownVars,
            requestVars, mainVars>>
vars == <<streamVars, wsVars>>

(***************************************************************************)
(* Bounds of the model.                                                    *)
(***************************************************************************)
MaxPieces == 4      \* a file is a concatenation of at most this many pieces
MaxChunk == 12      \* chunk sizes 1..MaxChunk are tried
MaxClients == 2     \* websocket clients
MaxMessages == 2    \* messages delivered, all peers together
MaxReloads == 1     \* broadcasts started

(***************************************************************************)
(* Bytes. A byte string is a sequence of one-character strings.            *)
(***************************************************************************)
HeadMarker == <<"<", "/", "h", "e", "a", "d", ">">>
BodyMarker == <<"<", "/", "b", "o", "d", "y", ">">>

\* self._script_to_inject.encode(...): one opaque token that no file contains
script_to_inject == <<"SCRIPT">>

\* the 8 of chunk[:-8]
CarryCut == 8

Min(a, b) == IF a < b THEN a ELSE b

\* m occurs in s starting at index i
OccursAt(m, s, i) ==
    /\ i >= 1
    /\ i + Len(m) - 1 <= Len(s)
    /\ \A k \in 1..Len(m) : s[i + k - 1] = m[k]

\* Python: m in s
Contains(m, s) == \E i \in 1..Len(s) : OccursAt(m, s, i)

\* Python: s.find(m) + 1, 0 when absent
Find(m, s) ==
    IF Contains(m, s)
    THEN CHOOSE i \in 1..Len(s) :
            OccursAt(m, s, i) /\ \A j \in 1..(i - 1) : ~OccursAt(m, s, j)
    ELSE 0

\* Python: s.partition(sep)
Partition(s, sep) ==
    LET i == Find(sep, s) IN
    IF i = 0 THEN <<s, <<>>, <<>>>>
    ELSE <<SubSeq(s, 1, i - 1), sep, SubSeq(s, i + Len(sep), Len(s))>>

\* Python: s[:-CarryCut]
CarryOver(s) == IF Len(s) > CarryCut THEN SubSeq(s, 1, Len(s) - CarryCut) ELSE <<>>

\* Python: fobj.read(n) at offset p
ReadChunk(f, p, n) == SubSeq(f, p + 1, Min(p + n, Len(f)))

RECURSIVE Flatten(_)
Flatten(ps) == IF ps = <<>> THEN <<>> ELSE Head(ps) \o Flatten(Tail(ps))

\* the pieces files are made of: filler, the markers, and the two halves of a
\* split </head> with a filler long enough to fall out of chunk[:-8]
Pieces ==
    { <<"x">>,
      HeadMarker,
      BodyMarker,
      <<"<", "/", "h", "e">>,
      <<"a", "d", ">">>,
      <<"z", "z", "z", "z", "z", "z", "z", "z">> }

Files == { Flatten(ps) : ps \in UNION { [1..n -> Pieces] : n \in 0..MaxPieces } }

Clients == 1..MaxClients

(***************************************************************************)
(* _get_static_file, lines 97-114, and the head of                         *)
(* _stream_file_with_replacement, lines 128-135. The file system is seen   *)
(* through is_dir() and is_file() of the two paths the resolver tests.     *)
(***************************************************************************)
FsKinds == {"file", "dir", "none"}

\* a resolver that never looks for index.html
UsesIndexNever(target, index) == FALSE

\* line 105: the resolver switches to index.html
UsesIndex(target, index) == target = "dir" /\ index = "file"

\* lines 105-108: destination_file.is_file() after the switch of line 106
DestinationIsFile(target, index) ==
    IF UsesIndex(target, index) THEN index = "file" ELSE target = "file"

\* one request: the file system around its path, the bytes of the file
\* that is streamed and the chunk size; nothing is read of a file that is
\* not streamed
StaticInit ==
    /\ fs_target \in FsKinds
    /\ fs_index \in (IF fs_target = "dir" THEN FsKinds ELSE {"none"})
    /\ fs_html \in (IF fs_target = "file" THEN BOOLEAN ELSE {fs_index = "file"})
    /\ status = 0
    /\ committed = FALSE
    /\ IF fs_html
       THEN file \in Files /\ chunk_size \in 1..MaxChunk
       ELSE file = <<>> /\ chunk_size = 1
    /\ st_pc = "request"
    /\ pos = 0
    /\ chunk = <<>>
    /\ end_of_last_chunk = <<>>
    /\ search_space = <<>>
    /\ wrote_injected_script = FALSE
    /\ out = <<>>

\* lines 103-114 and 128-135: resolve; answer 404, hand the file to
\* FileResponse, or go on to the streamed response
GetStaticFile ==
    /\ st_pc = "request"
    /\ IF ~DestinationIsFile(fs_target, fs_index)
       THEN st_pc' = "done" /\ status' = 404
       ELSE IF ~fs_html
            THEN st_pc' = "file_response" /\ status' = 200
            ELSE st_pc' = "start" /\ UNCHANGED status
    /\ UNCHANGED <<file, chunk_size, pos, chunk, end_of_last_chunk, search_space,
                   wrote_injected_script, out, fs_target, fs_index, fs_html, committed,
                   wsVars>>

\* lines 137-145: the file was removed while prepare() was awaited; open()
\* raises FileNotFoundError after the headers have gone out
StreamOpenFails ==
    /\ st_pc = "start"
    /\ st_pc' = "failed"
    /\ status' = 200
    /\ committed' = TRUE
    /\ UNCHANGED <<file, chunk_size, pos, chunk, end_of_last_chunk, search_space,
                   wrote_injected_script, out, fs_target, fs_index, fs_html, wsVars>>

(***************************************************************************)
(* _stream_file_with_replacement, the text/html path (lines 137-170).      *)
(***************************************************************************)
StreamInit ==
    /\ fs_target = "file"
    /\ fs_index = "none"
    /\ fs_html = TRUE
    /\ status = 0
    /\ committed = FALSE
    /\ file \in Files
    /\ chunk_size \in 1..MaxChunk
    /\ st_pc = "start"
    /\ pos = 0
    /\ chunk = <<>>
    /\ end_of_last_chunk = <<>>
    /\ search_space = <<>>
    /\ wrote_injected_script = FALSE
    /\ out = <<>>

StreamOff ==
    /\ fs_target = "none"
    /\ fs_index = "none"
    /\ fs_html = FALSE
    /\ status = 0
    /\ committed = FALSE
    /\ file = <<>>
    /\ chunk_size = 1
    /\ st_pc = "off"
    /\ pos = 0
    /\ chunk = <<>>
    /\ end_of_last_chunk = <<>>
    /\ search_space = <<>>
    /\ wrote_injected_script = FALSE
    /\ out = <<>>

\* lines 137-147: prepare the response, open the file, read the first chunk
StreamStart ==
    /\ st_pc = "start"
    /\ st_pc' = "loop"
    /\ wrote_injected_script' = FALSE
    /\ end_of_last_chunk' = <<>>
    /\ chunk' = ReadChunk(file, 0, chunk_size)
    /\ pos' = Len(chunk')
    /\ status' = 200
    /\ committed' = TRUE
    /\ UNCHANGED <<file, chunk_size, search_space, out, fs_target, fs_index, fs_html, wsVars>>

\* lines 153-159: the four writes of the pass that injects
InjectWrites(c) ==
    LET parts == Partition(c, HeadMarker) IN
    parts[1] \o script_to_inject \o parts[2] \o parts[3]

\* the test of line 151
MarkerInSpace(space) == Contains(HeadMarker, space) \/ Contains(BodyMarker, space)

\* lines 148-164: one pass of the while loop, the next read included
StreamChunk ==
    /\ st_pc = "loop"
    /\ chunk # <<>>
    /\ IF ~wrote_injected_script
       THEN /\ search_space' = end_of_last_chunk \o chunk
            /\ IF MarkerInSpace(search_space')
               THEN /\ wrote_injected_script' = TRUE
                    /\ out' = out \o InjectWrites(chunk)
               ELSE UNCHANGED <<wrote_injected_script, out>>
       ELSE /\ out' = out \o chunk
            /\ UNCHANGED <<search_space, wrote_injected_script>>
    /\ end_of_last_chunk' = CarryOver(chunk)
    /\ chunk' = ReadChunk(file, pos, chunk_size)
    /\ pos' = pos + Len(chunk')
    /\ UNCHANGED <<file, chunk_size, st_pc, staticVars, wsVars>>

\* a finish that appends the payload whatever the loop did
FinalWritesAlways(wrote) == script_to_inject

\* lines 166-167: the payload is appended when the loop never wrote it
FinalWrites(wrote) == IF ~wrote THEN script_to_inject ELSE <<>>

\* lines 148, 166-170: the loop ends on the empty read, the payload is
\* appended when it was never written, the response is finished
StreamFinish ==
    /\ st_pc = "loop"
    /\ chunk = <<>>
    /\ st_pc' = "done"
    /\ out' = out \o FinalWrites(wrote_injected_script)
    /\ UNCHANGED <<file, chunk_size, pos, chunk, end_of_last_chunk, search_space,
                   wrote_injected_script, staticVars, wsVars>>

StreamNext == StreamStart \/ StreamChunk \/ StreamFinish

(***************************************************************************)
(* The websocket side: state after LiveReloadingStaticServer.__init__.     *)
(***************************************************************************)
\* <<status, body>> of a force-reload request: none yet
NoResponse == <<0, "">>
\* line 252: aiohttp.web.Response(status=200)
OkResponse == <<200, "">>
\* the framework's answer to a handler that raised
ErrorResponse == <<500, "Internal Server Error">>

WsInit ==
    /\ open_websockets = {}
    /\ h_pc = [c \in Clients |-> "none"]
    /\ h_err = [c \in Clients |-> "none"]
    /\ closed = [c \in Clients |-> FALSE]
    /\ inbox_left = MaxMessages
    /\ outbox = [c \in Clients |-> <<>>]
    /\ hello_seen = [c \in Clients |-> 0]
    /\ last_msg = <<0, "none">>
    /\ r_pc = "idle"
    /\ r_path = ""
    /\ r_target = 0
    /\ r_used = 0
    /\ r_visited = {}
    /\ r_start = {}
    /\ r_gone = {}
    /\ r_count = [c \in Clients |-> 0]
    /\ r_err = "none"
    /\ reloads_left = MaxReloads
    /\ s_pc = "idle"
    /\ s_ws = 0
    /\ s_seen = {}
    /\ r_query = "none"
    /\ response = NoResponse


(***************************************************************************)
(* The websocket side.                                                     *)
(*                                                                         *)
(* Every coroutine is cut at its awaits: between two awaits it runs        *)
(* without interleaving (one event loop, one thread). The peer and the     *)
(* transport are the environment: on a channel that is not closed they may *)
(* deliver any message, end the message stream, or make a send raise.      *)
(* A handler holds a strong reference to its ws until it returns, after    *)
(* its own removal, so the WeakSet never drops a member by itself.         *)
(***************************************************************************)
SUPPORTED_PROTOCOL == "http://livereload.com/protocols/official-7"

\* the JSON object sent at lines 230-236
HelloAck ==
    [command |-> "hello",
     protocols |-> <<SUPPORTED_PROTOCOL>>,
     serverName |-> "python-livereload_server"]

\* the JSON object sent at lines 66-68
ReloadMessage(path) == [command |-> "reload", path |-> path, liveCSS |-> TRUE]

\* what a peer may deliver: text messages by payload (the three kinds of
\* command, a payload that is not JSON, a JSON object without "command"),
\* and the message types ERROR, CLOSE and any other (BINARY)
TextPayloads == {"hello", "info", "other", "malformed", "nocommand"}
Messages == TextPayloads \cup {"ERROR", "CLOSE", "BINARY"}

\* the path arguments tried: amain's "*" and a forcereload query path
Paths == {"*", "/style.css"}

\* reload() has left its loop and is handing back to its caller: there is no
\* await between the two, so no other coroutine runs in between
Returning == r_pc \in {"returned", "raised"}

\* the site is started and held open: the class is used by a caller that
\* stays inside its async with block
Serving == a_pc = "none"

\* the values of the request's path parameter
Queries == Paths \cup {"absent"}

\* a step that takes no message
NoMessage == last_msg' = <<0, "none">>

\* clients removed from the registry while reload() is suspended in its loop
NoteGone(cs) == r_gone' = IF r_pc = "send" THEN r_gone \cup cs ELSE r_gone

\* lines 187-190: the channel upgrade completes and ws is added; clients are
\* numbered in the order their upgrades complete
Connect(c) ==
    /\ ~Returning
    /\ Serving
    /\ NoMessage
    /\ h_pc[c] = "none"
    /\ \A d \in 1..(c - 1) : h_pc[d] # "none"
    /\ s_pc # "done"
    /\ h_pc' = [h_pc EXCEPT ![c] = "recv"]
    /\ open_websockets' = open_websockets \cup {c}
    /\ s_seen' = IF s_pc = "close" THEN s_seen \cup {c} ELSE s_seen
    /\ UNCHANGED <<h_err, closed, inbox_left, outbox, hello_seen, reloadVars, s_pc, s_ws,
                   requestVars, mainVars, streamVars>>

\* lines 205-209, reached with exception err ("none" for the normal exit):
\* guarded removal, then ws.close() unless ws.closed
Finally(c, err) ==
    /\ open_websockets' = open_websockets \ {c}
    /\ NoteGone({c} \cap open_websockets)
    /\ h_err' = [h_err EXCEPT ![c] = err]
    /\ h_pc' = [h_pc EXCEPT ![c] = IF closed[c] THEN "done" ELSE "final_close"]

\* line 193: the async for hands the handler its next message
Dequeue(c, m) ==
    /\ ~Returning
    /\ h_pc[c] = "recv"
    /\ ~closed[c]
    /\ inbox_left > 0
    /\ inbox_left' = inbox_left - 1
    /\ last_msg' = <<c, m>>

\* a handler without the except clause: JSONDecodeError unwinds it
RecvMalformedUnwinds(c) ==
    /\ Dequeue(c, "malformed")
    /\ Finally(c, "JSONDecodeError")
    /\ UNCHANGED <<closed, outbox, hello_seen, r_pc, r_path, r_target, r_used,
                   r_visited, r_start, r_count, r_err, reloads_left,
                   shutdownVars,
                   requestVars, mainVars, streamVars>>

\* lines 194-195, 219-226: a text message that is not JSON is logged
RecvMalformed(c) ==
    /\ Dequeue(c, "malformed")
    /\ UNCHANGED <<open_websockets, h_pc, h_err, closed, outbox, hello_seen,
                   reloadVars, shutdownVars,
                   requestVars, mainVars, streamVars>>

\* lines 194-195, 228: data["command"] raises KeyError, the handler unwinds
RecvNoCommand(c) ==
    /\ Dequeue(c, "nocommand")
    /\ Finally(c, "KeyError_command")
    /\ UNCHANGED <<closed, outbox, hello_seen, r_pc, r_path, r_target, r_used,
                   r_visited, r_start, r_count, r_err, reloads_left,
                   shutdownVars,
                   requestVars, mainVars, streamVars>>

\* a dispatch that answers info like hello
AnswersWithHelloWide(command) == command \in {"hello", "info"}

\* a dispatch that answers unknown commands like hello
AnswersWithHelloUnknown(command) == command \in {"hello", "other"}

\* lines 229, 237, 240: the command that is answered
AnswersWithHello(command) == command = "hello"

\* lines 194-195, 228-244: a decoded command; hello suspends in send_json,
\* info and unknown commands are logged
RecvCommand(c, command) ==
    /\ command \in {"hello", "info", "other"}
    /\ Dequeue(c, command)
    /\ hello_seen' = [hello_seen EXCEPT ![c] = IF command = "hello" THEN @ + 1 ELSE @]
    /\ h_pc' = [h_pc EXCEPT ![c] = IF AnswersWithHello(command) THEN "hello_send" ELSE @]
    /\ UNCHANGED <<open_websockets, h_err, closed, outbox,
                   reloadVars, shutdownVars,
                   requestVars, mainVars, streamVars>>

\* lines 230-236: send_json of the acknowledgement completes
HelloSent(c) ==
    /\ ~Returning
    /\ NoMessage
    /\ h_pc[c] = "hello_send"
    /\ ~closed[c]
    /\ outbox' = [outbox EXCEPT ![c] = Append(@, HelloAck)]
    /\ h_pc' = [h_pc EXCEPT ![c] = "recv"]
    /\ UNCHANGED <<open_websockets, h_err, closed, inbox_left, hello_seen, reloadVars, shutdownVars,
                   requestVars, mainVars, streamVars>>

\* lines 230-236: send_json raises, the handler unwinds
HelloSendFails(c) ==
    /\ ~Returning
    /\ NoMessage
    /\ h_pc[c] = "hello_send"
    /\ Finally(c, "send_failed")
    /\ UNCHANGED <<closed, inbox_left, outbox, hello_seen, r_pc, r_path,
                   r_target, r_used, r_visited, r_start, r_count, r_err,
                   reloads_left, shutdownVars,
                   requestVars, mainVars, streamVars>>

\* lines 196-202: ERROR or CLOSE; remove(ws) raises KeyError when ws is not
\* a member, else the handler suspends in ws.close()
RecvErrorOrClose(c, type) ==
    /\ type \in {"ERROR", "CLOSE"}
    /\ Dequeue(c, type)
    /\ IF c \in open_websockets
       THEN /\ open_websockets' = open_websockets \ {c}
            /\ NoteGone({c})
            /\ h_pc' = [h_pc EXCEPT ![c] = "branch_close"]
            /\ UNCHANGED h_err
       ELSE Finally(c, "KeyError_remove")
    /\ UNCHANGED <<closed, outbox, hello_seen, r_pc, r_path, r_target, r_used,
                   r_visited, r_start, r_count, r_err, reloads_left,
                   shutdownVars,
                   requestVars, mainVars, streamVars>>

\* lines 203-204: any other message type is logged
RecvOtherType(c) ==
    /\ Dequeue(c, "BINARY")
    /\ UNCHANGED <<open_websockets, h_pc, h_err, closed, outbox, hello_seen,
                   reloadVars, shutdownVars,
                   requestVars, mainVars, streamVars>>

\* lines 199, 202: ws.close() of the ERROR/CLOSE branch completes, the loop
\* goes back to the async for
BranchClosed(c) ==
    /\ ~Returning
    /\ NoMessage
    /\ h_pc[c] = "branch_close"
    /\ closed' = [closed EXCEPT ![c] = TRUE]
    /\ h_pc' = [h_pc EXCEPT ![c] = "recv"]
    /\ UNCHANGED <<open_websockets, h_err, inbox_left, outbox, hello_seen, reloadVars, shutdownVars,
                   requestVars, mainVars, streamVars>>

\* line 193: the message stream ends (the peer went away, or the channel
\* was closed), the handler reaches its finally
StreamEnds(c) ==
    /\ ~Returning
    /\ NoMessage
    /\ h_pc[c] = "recv"
    /\ Finally(c, "none")
    /\ UNCHANGED <<closed, inbox_left, outbox, hello_seen, r_pc, r_path,
                   r_target, r_used, r_visited, r_start, r_count, r_err,
                   reloads_left, shutdownVars,
                   requestVars, mainVars, streamVars>>


\* a finally block without its close: the handler returns at once
FinalClosedSkipped(c) ==
    /\ ~Returning
    /\ NoMessage
    /\ h_pc[c] = "final_close"
    /\ h_pc' = [h_pc EXCEPT ![c] = "done"]
    /\ UNCHANGED <<open_websockets, h_err, closed, inbox_left, outbox, hello_seen, reloadVars,
                   shutdownVars, requestVars, mainVars, streamVars>>

\* lines 209-211: ws.close() of the finally completes, the handler returns
\* or re-raises
FinalClosed(c) ==
    /\ ~Returning
    /\ NoMessage
    /\ h_pc[c] = "final_close"
    /\ closed' = [closed EXCEPT ![c] = TRUE]
    /\ h_pc' = [h_pc EXCEPT ![c] = "done"]
    /\ UNCHANGED <<open_websockets, h_err, inbox_left, outbox, hello_seen, reloadVars, shutdownVars,
                   requestVars, mainVars, streamVars>>

(***************************************************************************)
(* reload(), lines 62-68. The for loop iterates the live set: the set      *)
(* iterator remembers the size of the set when it was made and raises      *)
(* RuntimeError ("Set changed size during iteration") when asked for the   *)
(* next member of a set of another size. With the size restored by a       *)
(* removal and an addition it goes on over the table: members that stayed  *)
(* are still yielded once, a member added meanwhile may or may not be.     *)
(***************************************************************************)
\* the for statement asks the iterator for the next member of regs
IterNext(regs) ==
    IF Cardinality(regs) # r_used
    THEN /\ r_pc' = "raised"
         /\ r_err' = "RuntimeError"
         /\ UNCHANGED <<r_target, r_visited>>
    ELSE \/ /\ (regs \ r_visited) \cap r_start = {}
            /\ r_pc' = "returned"
            /\ UNCHANGED <<r_target, r_visited, r_err>>
         \/ \E c \in regs \ r_visited :
                /\ r_target' = c
                /\ r_visited' = r_visited \cup {c}
                /\ r_pc' = "send"
                /\ UNCHANGED r_err

\* lines 64-66: reload(path) is called and runs to its first send_json
ReloadStart(path) ==
    /\ ~Returning
    /\ Serving
    /\ NoMessage
    /\ r_pc = "idle"
    /\ reloads_left > 0
    /\ s_pc # "done"
    /\ reloads_left' = reloads_left - 1
    /\ r_path' = path
    /\ r_start' = open_websockets
    /\ r_used' = Cardinality(open_websockets)
    /\ r_gone' = {}
    /\ r_count' = [c \in Clients |-> 0]
    /\ r_err' = "none"
    /\ IF open_websockets = {}
       THEN /\ r_pc' = "returned"
            /\ r_target' = 0
            /\ r_visited' = {}
       ELSE \E c \in open_websockets :
                /\ r_target' = c
                /\ r_visited' = {c}
                /\ r_pc' = "send"
    /\ UNCHANGED <<open_websockets, handlerVars, shutdownVars, mainVars, streamVars>>

\* lines 65-68: send_json completes and the loop asks for the next member
ReloadSent ==
    /\ ~Returning
    /\ NoMessage
    /\ r_pc = "send"
    /\ ~closed[r_target]
    /\ outbox' = [outbox EXCEPT ![r_target] = Append(@, ReloadMessage(r_path))]
    /\ r_count' = [r_count EXCEPT ![r_target] = @ + 1]
    /\ IterNext(open_websockets)
    /\ UNCHANGED <<open_websockets, h_pc, h_err, closed, inbox_left, hello_seen,
                   r_path, r_used, r_start, r_gone, reloads_left,
                   shutdownVars,
                   requestVars, mainVars, streamVars>>

\* lines 66-68: send_json raises; nothing catches it, reload() raises
ReloadSendFails ==
    /\ ~Returning
    /\ NoMessage
    /\ r_pc = "send"
    /\ r_pc' = "raised"
    /\ r_err' = "send_failed"
    /\ UNCHANGED <<open_websockets, handlerVars, r_path, r_target, r_used, r_visited,
                   r_start, r_gone, r_count, reloads_left, shutdownVars,
                   requestVars, mainVars, streamVars>>

\* line 68 and the frame's end: reload() returns or raises to its caller,
\* _get_forcereload, and its locals are gone; line 252 builds the response
\* after a return
ReloadEnds ==
    /\ Returning
    /\ NoMessage
    /\ r_pc' = "idle"
    /\ r_path' = ""
    /\ r_target' = 0
    /\ r_used' = 0
    /\ r_visited' = {}
    /\ r_start' = {}
    /\ r_gone' = {}
    /\ r_count' = [c \in Clients |-> 0]
    /\ r_err' = "none"
    /\ r_query' = "none"
    /\ response' = IF r_pc = "returned" THEN OkResponse ELSE ErrorResponse
    /\ UNCHANGED <<open_websockets, handlerVars, reloads_left, shutdownVars,
                   mainVars, streamVars>>

(***************************************************************************)
(* _get_forcereload, lines 246-252. The handler awaits reload() and then   *)
(* builds its response (ReloadEnds); an exception of reload() leaves the   *)
(* handler and the web framework answers the request with status 500.     *)
(***************************************************************************)
\* line 251: request.query.get("path", "*")
QueryPath(query) == IF query = "absent" THEN "*" ELSE query

\* lines 250-251: a force-reload request arrives and the handler calls reload()
GetForcereload(query) ==
    /\ r_query' = query
    /\ response' = NoResponse
    /\ ReloadStart(QueryPath(query))

(***************************************************************************)
(* _on_shutdown, lines 70-74.                                              *)
(***************************************************************************)
\* an if in place of the while: one member is popped and closed
ShutdownLoopOnce ==
    IF open_websockets = {} \/ s_pc = "close"
    THEN /\ s_pc' = "done"
         /\ s_ws' = 0
         /\ UNCHANGED <<open_websockets, r_gone>>
    ELSE \E c \in open_websockets :
            /\ open_websockets' = open_websockets \ {c}
            /\ NoteGone({c})
            /\ s_ws' = c
            /\ s_pc' = "close"

\* lines 72-74: the while test, the pop, and the call of websocket.close()
ShutdownLoop ==
    IF open_websockets = {}
    THEN /\ s_pc' = "done"
         /\ s_ws' = 0
         /\ UNCHANGED <<open_websockets, r_gone>>
    ELSE \E c \in open_websockets :
            /\ open_websockets' = open_websockets \ {c}
            /\ NoteGone({c})
            /\ s_ws' = c
            /\ s_pc' = "close"

\* the application's on_shutdown signal calls the hook (line 60)
ShutdownBegin ==
    /\ ~Returning
    /\ NoMessage
    /\ s_pc = "idle"
    /\ a_pc \in {"none", "aexit"}
    /\ s_seen' = open_websockets
    /\ ShutdownLoop
    /\ UNCHANGED <<handlerVars, r_pc, r_path, r_target, r_used, r_visited, r_start,
                   r_count, r_err, reloads_left,
                   requestVars, mainVars, streamVars>>

\* line 74: websocket.close() completes, the loop goes on
ShutdownClosed ==
    /\ ~Returning
    /\ NoMessage
    /\ s_pc = "close"
    /\ closed' = [closed EXCEPT ![s_ws] = TRUE]
    /\ ShutdownLoop
    /\ UNCHANGED s_seen
    /\ UNCHANGED <<h_pc, h_err, inbox_left, outbox, hello_seen, r_pc, r_path,
                   r_target, r_used, r_visited, r_start, r_count, r_err,
                   reloads_left,
                   requestVars, mainVars, streamVars>>

(***************************************************************************)
(* amain, __main__.py lines 16-23.                                         *)
(***************************************************************************)
\* lines 17-18: the server is constructed and async with awaits __aenter__,
\* which sets the runner up and starts the site
AmainEnter ==
    /\ a_pc = "start"
    /\ NoMessage
    /\ a_pc' = "entered"
    /\ UNCHANGED <<open_websockets, handlerVars, reloadVars, shutdownVars, requestVars,
                   a_err, streamVars>>

\* line 20: awatch(server.path_to_serve) is evaluated with no await after
\* __aenter__ returned; the class defines _path_to_serve only (__init__.py
\* line 35), so the attribute lookup raises AttributeError. Line 22 catches
\* asyncio.CancelledError alone: the exception leaves the try and the
\* async with block, whose __aexit__ awaits the runner's cleanup.
AmainWatch ==
    /\ a_pc = "entered"
    /\ NoMessage
    /\ a_pc' = "aexit"
    /\ a_err' = "AttributeError"
    /\ UNCHANGED <<open_websockets, handlerVars, reloadVars, shutdownVars, requestVars,
                   streamVars>>

\* __init__.py lines 89-95 and __main__.py line 39: cleanup has run the
\* shutdown hook; __aexit__ returns None, the exception goes on out of
\* amain and asyncio.run raises it
AmainRaises ==
    /\ a_pc = "aexit"
    /\ s_pc = "done"
    /\ NoMessage
    /\ a_pc' = "raised"
    /\ UNCHANGED <<open_websockets, handlerVars, reloadVars, shutdownVars, requestVars,
                   a_err, streamVars>>

WsNext ==
    \/ \E c \in Clients : Connect(c)
    \/ \E c \in Clients : RecvMalformed(c)
    \/ \E c \in Clients : RecvNoCommand(c)
    \/ \E c \in Clients, command \in {"hello", "info", "other"} : RecvCommand(c, command)
    \/ \E c \in Clients : HelloSent(c)
    \/ \E c \in Clients : HelloSendFails(c)
    \/ \E c \in Clients, type \in {"ERROR", "CLOSE"} : RecvErrorOrClose(c, type)
    \/ \E c \in Clients : RecvOtherType(c)
    \/ \E c \in Clients : BranchClosed(c)
    \/ \E c \in Clients : StreamEnds(c)
    \/ \E c \in Clients : FinalClosed(c)
    \/ \E query \in Queries : GetForcereload(query)
    \/ ReloadSent
    \/ ReloadSendFails
    \/ ReloadEnds
    \/ ShutdownBegin
    \/ ShutdownClosed

\* the handlers and the shutdown hook alone, no broadcast running
HandlersNext ==
    \/ \E c \in Clients : Connect(c)
    \/ \E c \in Clients : RecvMalformed(c)
    \/ \E c \in Clients : RecvNoCommand(c)
    \/ \E c \in Clients, command \in {"hello", "info", "other"} : RecvCommand(c, command)
    \/ \E c \in Clients : HelloSent(c)
    \/ \E c \in Clients : HelloSendFails(c)
    \/ \E c \in Clients, type \in {"ERROR", "CLOSE"} : RecvErrorOrClose(c, type)
    \/ \E c \in Clients : RecvOtherType(c)
    \/ \E c \in Clients : BranchClosed(c)
    \/ \E c \in Clients : StreamEnds(c)
    \/ \E c \in Clients : FinalClosed(c)
    \/ ShutdownBegin
    \/ ShutdownClosed

(***************************************************************************)
(* Specifications.                                                         *)
(***************************************************************************)
\* the class used without amain
MainOff == a_pc = "none" /\ a_err = "none"

InitStream == StreamInit /\ WsInit /\ MainOff
SpecStream == InitStream /\ [][StreamNext]_vars

StaticNext ==
    \/ GetStaticFile
    \/ StreamOpenFails
    \/ StreamStart
    \/ StreamChunk
    \/ StreamFinish

InitStatic == StaticInit /\ WsInit /\ MainOff
SpecStatic == InitStatic /\ [][StaticNext]_vars

InitWs == StreamOff /\ WsInit /\ MainOff
SpecWs == InitWs /\ [][WsNext]_vars
SpecHandlers == InitWs /\ [][HandlersNext]_vars

\* the program started through amain, or the class used by another caller
InitMain == StreamOff /\ WsInit /\ a_pc \in {"start", "none"} /\ a_err = "none"

MainNext ==
    \/ AmainEnter
    \/ AmainWatch
    \/ AmainRaises
    \/ WsNext

SpecMain == InitMain /\ [][MainNext]_vars

\* websocket.close() awaited by _on_shutdown completes (aiohttp bounds the
\* wait for the peer's close frame by a timeout)
SpecShutdown == InitWs /\ [][HandlersNext]_vars /\ WF_vars(ShutdownClosed)

(***************************************************************************)
(* Properties of the streaming rewriter.                                   *)
(***************************************************************************)
\* number of payload tokens in a written stream
RECURSIVE Count(_, _)
Count(tok, s) ==
    IF s = <<>> THEN 0
    ELSE (IF Head(s) = tok THEN 1 ELSE 0) + Count(tok, Tail(s))

PayloadCount == Count(script_to_inject[1], out)

\* start indices of marker occurrences in the file
MarkerStarts ==
    { i \in 1..Len(file) : OccursAt(HeadMarker, file, i) \/ OccursAt(BodyMarker, file, i) }

\* the file with the payload spliced in before index i
InjectedBefore(i) ==
    SubSeq(file, 1, i - 1) \o script_to_inject \o SubSeq(file, i, Len(file))

\* C1: an HTML file with exactly one marker occurrence is answered, for every
\* chunk size, with the file bytes and the payload once, immediately before
\* that marker.
C1_OneMarkerInjectedBeforeIt ==
    (st_pc = "done" /\ Cardinality(MarkerStarts) = 1)
        => \A i \in MarkerStarts : out = InjectedBefore(i)

\* C2: an HTML file with neither marker is answered, for every chunk size,
\* with the file bytes followed by the payload once.
C2_NoMarkerAppended ==
    (st_pc = "done" /\ MarkerStarts = {})
        => out = file \o script_to_inject

\* the chunk the loop processed before the current one, and the offset where it ends
PrevChunkEnd == pos - Len(chunk)
PrevChunk == SubSeq(file, PrevChunkEnd - chunk_size + 1, PrevChunkEnd)

\* the trailing n bytes of s
Trailing(s, n) == IF Len(s) > n THEN SubSeq(s, Len(s) - n + 1, Len(s)) ELSE s

\* a marker occurrence of the file lies across offset e
Straddles(e) == \E i \in MarkerStarts : i <= e /\ e < i + Len(HeadMarker) - 1

\* C3: when a marker lies across a chunk boundary, the carry-over kept between
\* the two passes is the trailing K-1 bytes of the previous chunk, the search
\* space is a contiguous piece of the file,
\* and at the end a marker has been detected exactly when the file holds one
\* (a straddling marker is found, no absent marker is reported), with the
\* payload written once.
C3_CarryOverDetectsSplitMarker ==
    /\ (st_pc = "loop" /\ chunk # <<>> /\ Straddles(PrevChunkEnd))
            => end_of_last_chunk = Trailing(PrevChunk, Len(HeadMarker) - 1)
    /\ search_space = <<>> \/ Contains(search_space, file)
    /\ st_pc = "done"
            => /\ wrote_injected_script <=> (MarkerStarts # {})
               /\ PayloadCount = 1

\* C4: when the response is finished the payload has been written exactly
\* once, whatever the file holds and however it was chunked; it is never
\* written twice on the way.
C4_PayloadExactlyOnce ==
    /\ PayloadCount <= 1
    /\ st_pc = "done" => PayloadCount = 1

\* a finished response of several chunks over a file with several markers,
\* the payload written by the loop
C4_Witness ==
    /\ st_pc = "done"
    /\ Cardinality(MarkerStarts) >= 2
    /\ Len(file) > 2 * chunk_size
    /\ wrote_injected_script
    /\ PayloadCount = 1

(***************************************************************************)
(* Properties of the registry, the broadcast and the handlers.             *)
(***************************************************************************)
\* clients registered when the broadcast began and not removed during it
StayedRegistered == r_start \ r_gone

\* the client whose send raised, if one did
FailedTarget == IF r_err = "send_failed" THEN {r_target} ELSE {}

\* C5: a client is registered from its channel upgrade on, before any hello;
\* a broadcast sends exactly one reload message, carrying its path, to every
\* client registered when it began (hello received or not) whose channel
\* takes the send, and none to a client that is not registered.
C5_BroadcastReachesEveryRegisteredClient ==
    /\ \A c \in Clients :
        (h_pc[c] = "recv" /\ ~closed[c] /\ s_ws # c) => c \in open_websockets
    /\ Returning =>
        /\ \A c \in StayedRegistered \ FailedTarget :
            /\ r_count[c] = 1
            /\ outbox[c] # <<>>
            /\ outbox[c][Len(outbox[c])] = ReloadMessage(r_path)
        /\ \A c \in Clients :
            /\ r_count[c] <= 1
            /\ r_count[c] = 1 => c \in r_start \cup open_websockets

\* C6: when the send to one client fails, reload() still sends the
\* notification to every other registered client and returns normally.
C6_SendFailureIsolated ==
    r_err = "send_failed" =>
        /\ r_pc # "raised"
        /\ \A c \in StayedRegistered \ {r_target} : r_count[c] = 1

\* C7: when a client is removed from the registry while reload() is
\* suspended at a send, reload() does not raise and every client that stays
\* registered for the whole broadcast receives the notification exactly once.
C7_RemovalDuringBroadcastTolerated ==
    (Returning /\ r_gone # {} /\ r_err # "send_failed") =>
        /\ r_pc = "returned"
        /\ \A c \in StayedRegistered : r_count[c] = 1

\* C8: removing a client twice never raises, whichever of the ERROR/CLOSE
\* branch, the final cleanup and the shutdown pop come first, and a handler
\* that has finished leaves the registry without its client.
C8_RemovalIdempotent ==
    \A c \in Clients :
        /\ h_err[c] # "KeyError_remove"
        /\ h_pc[c] = "done" => c \notin open_websockets

\* number of hello acknowledgements sent to c
RECURSIVE CountCommand(_, _)
CountCommand(cmd, msgs) ==
    IF msgs = <<>> THEN 0
    ELSE (IF Head(msgs).command = cmd THEN 1 ELSE 0) + CountCommand(cmd, Tail(msgs))

AckCount(c) == CountCommand("hello", outbox[c])

\* hellos of c whose acknowledgement is not sent: the one being sent, or the
\* one whose send raised and unwound the handler
AckOutstanding(c) ==
    IF h_pc[c] = "hello_send" \/ h_err[c] = "send_failed" THEN 1 ELSE 0

\* C9: every hello a client sends is answered to that client with exactly one
\* acknowledgement, naming exactly one protocol and a non-empty server name
\* (the acknowledgement of the hello in hand is the one send still running,
\* or the one send the transport refused); no client is sent an
\* acknowledgement without a hello of its own.
C9_OneAckPerHello ==
    \A c \in Clients :
        /\ AckCount(c) = hello_seen[c] - AckOutstanding(c)
        /\ \A i \in 1..Len(outbox[c]) :
            outbox[c][i].command = "hello" =>
                /\ Len(outbox[c][i].protocols) = 1
                /\ outbox[c][i].protocols[1] = SUPPORTED_PROTOCOL
                /\ outbox[c][i].serverName # ""

\* a client whose hello was acknowledged once, next to a connected client
\* that sent none and was sent nothing
C9_Witness ==
    \E c, d \in Clients :
        /\ c # d
        /\ hello_seen[c] = 1
        /\ AckCount(c) = 1
        /\ h_pc[c] = "recv"
        /\ h_pc[d] = "recv"
        /\ hello_seen[d] = 0
        /\ outbox[d] = <<>>

\* C10: the step in which a handler takes a text message that does not
\* decode sends nothing, leaves the registry and every channel as they were,
\* raises nothing, and leaves the handler at its async for, ready for the
\* next message.
C10_MalformedDiscarded ==
    [][\A c \in Clients :
        last_msg' = <<c, "malformed">> =>
            /\ outbox' = outbox
            /\ open_websockets' = open_websockets
            /\ closed' = closed
            /\ h_err' = h_err
            /\ h_pc'[c] = "recv"]_vars

\* a registered client on an open channel whose handler has just discarded
\* a message that does not decode and can take the next one
C10_Witness ==
    \E c \in Clients :
        /\ last_msg = <<c, "malformed">>
        /\ c \in open_websockets
        /\ ~closed[c]
        /\ h_err[c] = "none"
        /\ outbox[c] = <<>>
        /\ ENABLED RecvCommand(c, "hello")

\* a channel on which close() has completed, or is awaited by the handler
\* that removed the client from the registry itself
ClosedOrClosing(c) == closed[c] \/ h_pc[c] \in {"branch_close", "final_close"}

\* C11 as stated: when _on_shutdown returns the registry is empty and the
\* channel of every client registered when it began, or registered while it
\* was suspended at a close, is closed; and _on_shutdown terminates.
C11_ShutdownClosesEveryClient ==
    /\ [](s_pc = "done" =>
            /\ open_websockets = {}
            /\ \A c \in s_seen : closed[c])
    /\ (s_pc = "close") ~> (s_pc = "done")

\* C11 amended: when _on_shutdown returns the registry is empty and the
\* channel of every such client is closed, or is being closed by the
\* client's own handler, which removed it from the registry before
\* _on_shutdown reached it; and _on_shutdown terminates.
C11_ShutdownClosesOrHandlerCloses ==
    /\ [](s_pc = "done" =>
            /\ open_websockets = {}
            /\ \A c \in s_seen : ClosedOrClosing(c))
    /\ (s_pc = "close") ~> (s_pc = "done")

\* _on_shutdown has returned after closing every client it was to close,
\* two or more, whose handlers are still reading
C11_Witness ==
    /\ s_pc = "done"
    /\ Cardinality(s_seen) >= 2
    /\ \A c \in s_seen : closed[c] /\ h_pc[c] = "recv"

\* the reload message of the request being handled is in the outbox of c
SentReloadOf(c) ==
    \E i \in DOMAIN outbox[c] : outbox[c][i] = ReloadMessage(QueryPath(r_query))

\* C12: a force-reload request with path parameter p broadcasts with path p,
\* with "*" when the parameter is absent; when the broadcast ends every
\* client registered at its start has been sent {command: reload, path: p,
\* liveCSS: true} once; the request is answered 200 with an empty body, and
\* not before the broadcast has ended.
C12_ForceReloadBroadcastsThenAnswers200 ==
    /\ r_pc # "idle" => r_path = QueryPath(r_query)
    /\ Returning => \A c \in r_start : r_count[c] = 1 /\ SentReloadOf(c)
    /\ r_pc # "idle" => response = NoResponse
    /\ response \in {NoResponse, OkResponse}

\* what the file system holds at the final path: the request path under the
\* serving root, or its index.html when that is a directory
FinalKind == IF fs_target = "dir" THEN fs_index ELSE fs_target

\* C13: a resolved request is answered 404 exactly when no file exists at
\* the final path; a 404 has no streamed byte and no committed header, and
\* headers are committed only for a file that was found.
C13_NotFoundExactlyWhenNoFile ==
    st_pc # "request" =>
        /\ status = 404 <=> FinalKind # "file"
        /\ status = 404 => out = <<>> /\ ~committed /\ st_pc = "done"
        /\ committed \/ out # <<>> => FinalKind = "file"

\* a directory without index.html was requested and answered 404
C13_Witness ==
    /\ st_pc = "done"
    /\ status = 404
    /\ fs_target = "dir"
    /\ fs_index # "file"

\* the response bytes with the payload taken out
WithoutPayload(bytes) == SelectSeq(bytes, LAMBDA b : b # script_to_inject[1])

\* C14: in the read loop every chunk read is written once and in file
\* order, before and after the injection: at each test of the while the
\* response without the payload is the file up to the chunk in hand, and
\* the finished response without the payload is the file.
C14_EveryChunkWrittenOnceInOrder ==
    /\ st_pc = "loop" => WithoutPayload(out) = SubSeq(file, 1, pos - Len(chunk))
    /\ st_pc = "done" /\ status = 200 => WithoutPayload(out) = file

\* C15: a handler that has exited, by whatever path (after an ERROR or
\* CLOSE message, at the end of the message stream, or unwinding with an
\* exception), has left its client out of the registry and its channel
\* closed.
C15_HandlerExitDeregistersAndCloses ==
    \A c \in Clients :
        h_pc[c] = "done" => c \notin open_websockets /\ closed[c]

\* one handler has exited at the end of its message stream and another by an
\* exception raised while it handled a message
C15_Witness ==
    \E c, d \in Clients :
        /\ h_pc[c] = "done" /\ h_err[c] = "none"
        /\ h_pc[d] = "done" /\ h_err[d] # "none"

\* C16: a broadcast during which no client left the registry and no send
\* failed, but during which a client may have been added while a send was
\* suspended, returns without raising and has sent the message once to
\* every client registered when it began.
C16_AdditionDuringBroadcastTolerated ==
    (Returning /\ r_gone = {} /\ r_err # "send_failed") =>
        /\ r_pc = "returned"
        /\ \A c \in r_start : r_count[c] = 1

\* C17: the step in which a handler takes a text message that decodes but
\* has no command field closes no channel, removes no client, raises
\* nothing out of the handler and leaves it at its async for, ready for the
\* next message.
C17_MissingCommandHandledLocally ==
    [][\A c \in Clients :
        last_msg' = <<c, "nocommand">> =>
            /\ open_websockets' = open_websockets
            /\ closed' = closed
            /\ h_err' = h_err
            /\ h_pc'[c] = "recv"]_vars

\* C18: the step in which a handler takes an info message, or a message
\* with a command other than hello and info, sends nothing and starts no
\* send, and leaves the registry and every channel's open/closed state as
\* they were.
C18_InfoAndUnknownCommandsInert ==
    [][\A c \in Clients :
        last_msg' \in {<<c, "info">>, <<c, "other">>} =>
            /\ outbox' = outbox
            /\ h_pc' = h_pc
            /\ open_websockets' = open_websockets
            /\ closed' = closed]_vars

\* a client that has completed the handshake has just sent a message with an
\* unknown command: it has its acknowledgement and nothing else
C18_Witness ==
    \E c \in Clients :
        /\ last_msg = <<c, "other">>
        /\ hello_seen[c] = 1
        /\ outbox[c] = <<HelloAck>>
        /\ c \in open_websockets
        /\ ~closed[c]

\* C19: amain is never ended by an error: it does not unwind with an
\* exception and asyncio.run does not raise.
C19_NoErrorTerminatesServing ==
    /\ a_err = "none"
    /\ a_pc # "raised"

\* C20: the pass that triggers the injection on a search window holding
\* both </head> and </body> writes the payload immediately before the first
\* </head> of the window: the bytes of the window's chunk up to that
\* marker, the payload, then the marker and the rest.
C20_HeadTakesPriority ==
    [][(/\ st_pc = "loop"
        /\ ~wrote_injected_script
        /\ wrote_injected_script'
        /\ Contains(HeadMarker, search_space')
        /\ Contains(BodyMarker, search_space'))
       => LET carry == Len(end_of_last_chunk)
              first == Find(HeadMarker, search_space')
          IN /\ first > carry
             /\ out' = out \o SubSeq(search_space', carry + 1, first - 1)
                           \o script_to_inject
                           \o SubSeq(search_space', first, Len(search_space'))]_vars

====
